---- MODULE Spec2Model ----
(***************************************************************************)
(* MarketMatrix: the temporal snapshot engine.                             *)
(*                                                                         *)
(*   fetchHistory        services/marketData.ts   (src/unnamed/part_006)   *)
(*   useMarketData       hooks/useMarketData.ts   (src/unnamed/part_003,   *)
(*                       src/frontend/src/hooks/useWatchlist.ts)           *)
(*   TimeTravelFooter    components/TimeTravelFooter.tsx                   *)
(*                                                (src/unnamed/part_000)   *)
(*   App                 App.tsx                  (src/unnamed/part_005)   *)
(*                                                                         *)
(* Array indices are the code's: 0-based.  history[i] of the code is       *)
(* history[i + 1] of the model.                                            *)
(***************************************************************************)
EXTENDS Integers, Sequences, FiniteSets, TLC

(***************************************************************************)
(* Bounds of the model.                                                    *)
(***************************************************************************)
\* The feed holds at most MaxHist historical groups.
MaxHist == 2
\* A session creates at most MaxTimers intervals (window.setInterval ids).
MaxTimers == 3
\* The footer is rendered again up to MaxRerenders hours after its first render.
MaxRerenders == 2
\* Where the feed's records vary: stockData holds at most MaxStocks records and
\* a historical group at most MaxPartials.
MaxStocks == 2
MaxPartials == 2
\* Where only stockData varies, it holds at most MaxEntities records.
MaxEntities == 3
\* Where only the statuses count, stockData holds at most MaxListLen records.
MaxListLen == 40

(***************************************************************************)
(* Time.  A timestamp is a number of milliseconds since the epoch, or NaN  *)
(* (Date.prototype.getTime of an invalid Date).                            *)
(***************************************************************************)
DayMs == 24 * 60 * 60 * 1000
HourMs == 60 * 60 * 1000
MinuteMs == 60 * 1000

\* NaN, the time value of an invalid Date.  Every comparison goes through the
\* operators below, which give NaN its IEEE meaning.
NaN == -1
\* A raw feed timestamp new Date() cannot parse (absent, garbage text, out of range).
Unparseable == -2

\* new Date(raw).getTime()
DateGetTime(raw) == IF raw = Unparseable THEN NaN ELSE raw

\* a >= b on numbers: false when either is NaN
GreaterEq(a, b) == a # NaN /\ b # NaN /\ a >= b
\* a <= b on numbers: false when either is NaN
LessEq(a, b) == a # NaN /\ b # NaN /\ a <= b
\* a === b on numbers: NaN equals nothing, itself included
StrictEqNum(a, b) == a # NaN /\ b # NaN /\ a = b

\* Date.now() when fetchHistory builds the live snapshot
FetchTimes == {3 * DayMs}
\* Date.now() at the render that first evaluates filteredHistory, after the
\* fetch: at once, a second later, and more than a day later (the machine
\* suspended, or its clock set forward, in between)
RenderDelays == {0, 1000, DayMs + HourMs}

(***************************************************************************)
(* JavaScript values of the raw JSON records: a type tag and the value's   *)
(* text.  A record is a function from the keys it has to values.           *)
(***************************************************************************)
Undefined == [type |-> "undefined", val |-> "undefined"]
Num(text) == [type |-> "number", val |-> text]
Str(text) == [type |-> "string", val |-> text]

\* String(v): the value's text, as a string ("undefined" for undefined)
String(v) == [type |-> "string", val |-> v.val]

\* truthiness of v (v ? a : b)
Truthy(v) ==
    ~ \/ v.type = "undefined"
      \/ v.type = "number" /\ v.val \in {"0", "NaN"}
      \/ v.type = "string" /\ v.val = ""

\* obj.k: undefined when obj has no property k
Get(obj, k) == IF k \in DOMAIN obj THEN obj[k] ELSE Undefined

(***************************************************************************)
(* services/marketData.ts: fetchHistory                                    *)
(***************************************************************************)
MegaCaps == {"AAPL", "MSFT", "NVDA", "GOOG", "GOOGL", "AMZN"}
LargeCaps == {"META", "TSLA", "AVGO", "LLY", "V", "JPM", "WMT", "MA"}

\* Math.random() is drawn from these: the least and (nearly) the greatest value.
RandomDraws == {"lo", "hi"}

\* generateMarketCap(ticker, sector): (base + Math.random() * width).toFixed(2),
\* as text, for the draw rnd.
generateMarketCap(ticker, sector, rnd) ==
    LET lo == rnd = "lo" IN
    IF ticker.type = "string" /\ ticker.val \in MegaCaps
        THEN Str(IF lo THEN "2000.00" ELSE "2999.99")
    ELSE IF ticker.type = "string" /\ ticker.val \in LargeCaps
        THEN Str(IF lo THEN "500.00" ELSE "999.99")
    ELSE IF sector = Str("Technology")
        THEN Str(IF lo THEN "100.00" ELSE "399.99")
    ELSE IF sector = Str("Healthcare")
        THEN Str(IF lo THEN "80.00" ELSE "279.99")
    ELSE Str(IF lo THEN "50.00" ELSE "199.99")

\* The fields the live mapping forces to strings.
StringifiedKeys ==
    {"sma_50", "sma_200", "current_price", "daily_change", "strategy_return",
     "rsi", "volume"}

\* One element of liveStocks: { ...item, market_cap: ..., sma_50: String(...), ... }
liveStock(item, rnd) ==
    [k \in DOMAIN item \cup StringifiedKeys \cup {"market_cap"} |->
        IF k = "market_cap"
            THEN IF Truthy(Get(item, "market_cap"))
                    THEN String(Get(item, "market_cap"))
                    ELSE generateMarketCap(Get(item, "ticker"), Get(item, "sector"), rnd)
        ELSE IF k \in StringifiedKeys THEN String(Get(item, k))
        ELSE item[k]]

\* rawData.stockData.map(...), the random draw of item i being rnds[i]
liveStocksOf(stockData, rnds) ==
    [i \in 1..Len(stockData) |-> liveStock(stockData[i], rnds[i])]

\* liveStocks.find(s => s.ticker === partialStock.ticker): the first match, or
\* 0 when there is none.
findBaseStock(liveStocks, partialStock) ==
    LET hits == {i \in 1..Len(liveStocks) :
                    Get(liveStocks[i], "ticker") = Get(partialStock, "ticker")}
    IN IF hits = {} THEN 0 ELSE CHOOSE i \in hits : \A j \in hits : i <= j

\* { ...baseStock, ...partialStock, sma_50: String(partialStock.sma_50), ... }
mergeStock(baseStock, partialStock) ==
    [k \in DOMAIN baseStock \cup DOMAIN partialStock
            \cup {"sma_50", "sma_200", "status", "signal"} |->
        IF k \in {"sma_50", "sma_200"} THEN String(Get(partialStock, k))
        ELSE IF k \in {"status", "signal"} THEN Get(partialStock, k)
        ELSE IF k \in DOMAIN partialStock THEN partialStock[k]
        ELSE baseStock[k]]

\* snapshotStocks keeping the partial record that has no base stock
RECURSIVE snapshotStocksKeepsUnmatched(_, _)
snapshotStocksKeepsUnmatched(liveStocks, stocks) ==
    IF stocks = << >> THEN << >>
    ELSE LET b == findBaseStock(liveStocks, Head(stocks))
             rest == snapshotStocksKeepsUnmatched(liveStocks, Tail(stocks))
         IN IF b = 0 THEN << Head(stocks) >> \o rest
            ELSE << mergeStock(liveStocks[b], Head(stocks)) >> \o rest

\* snap.stocks.map(...).filter(Boolean)
RECURSIVE snapshotStocks(_, _)
snapshotStocks(liveStocks, stocks) ==
    IF stocks = << >> THEN << >>
    ELSE LET b == findBaseStock(liveStocks, Head(stocks))
             rest == snapshotStocks(liveStocks, Tail(stocks))
         IN IF b = 0 THEN rest
            ELSE << mergeStock(liveStocks[b], Head(stocks)) >> \o rest

\* date.toLocaleTimeString([], { hour: '2-digit', minute: '2-digit' }): the
\* minute of the day (the locale's offset taken as 0), "Invalid Date" for NaN.
toLocaleTimeString(t) ==
    IF t = NaN THEN [text |-> "Invalid Date", minute |-> 0]
    ELSE [text |-> "hh:mm", minute |-> (t % DayMs) \div MinuteMs]

LiveLabel == [text |-> "Now (Live)", minute |-> 0]

\* One element of history: the snapshot of the group snap
historicalSnapshot(liveStocks, snap) ==
    [label |-> toLocaleTimeString(DateGetTime(snap.timestamp)),
     timestamp |-> DateGetTime(snap.timestamp),
     data |-> snapshotStocks(liveStocks, snap.stocks)]

liveSnapshot(liveStocks, now) ==
    [label |-> LiveLabel, timestamp |-> now, data |-> liveStocks]

\* (a, b) => a.timestamp - b.timestamp; Array.prototype.sort reads NaN as +0
compareFn(a, b) ==
    IF a.timestamp = NaN \/ b.timestamp = NaN THEN 0
    ELSE a.timestamp - b.timestamp

\* x put after the last element of a sorted run that is not greater than x
RECURSIVE insertSorted(_, _)
insertSorted(run, x) ==
    IF run = << >> THEN << x >>
    ELSE LET last == run[Len(run)] IN
         IF compareFn(last, x) <= 0 THEN Append(run, x)
         ELSE Append(insertSorted(SubSeq(run, 1, Len(run) - 1), x), last)

\* The stable sort of s under compareFn
RECURSIVE stableSort(_)
stableSort(s) ==
    IF s = << >> THEN << >>
    ELSE insertSorted(stableSort(SubSeq(s, 1, Len(s) - 1)), s[Len(s)])

\* compareFn is a consistent comparator on s: "equal" is transitive.  With a NaN
\* timestamp, which compares equal to everything, that needs the others equal.
consistentComparator(s) ==
    \/ \A i \in 1..Len(s) : s[i].timestamp # NaN
    \/ \A i, j \in 1..Len(s) :
          (s[i].timestamp # NaN /\ s[j].timestamp # NaN)
              => s[i].timestamp = s[j].timestamp

\* The arrays s.sort(compareFn) can give: the stable sort, and for an
\* inconsistent comparator an implementation-defined order (ECMA-262 23.1.3.30).
sortOutcomes(s) ==
    IF consistentComparator(s) THEN {stableSort(s)}
    ELSE {[i \in 1..Len(s) |-> s[p[i]]] : p \in Permutations(1..Len(s))}

\* The response of fetch(DATA_URL) and response.json():
\*   status             "ok", or why the try block throws: the response is not
\*                      ok, fetch rejects, json() rejects, stockData is no
\*                      array, a group has no stocks array
\*   stockData          rawData.stockData
\*   hasHistorical      rawData.historicalSnapshots is there
\*   historicalSnapshots  its groups {timestamp, stocks}
FailureStatuses ==
    {"httpError", "networkError", "parseError", "noStockData", "malformedGroup"}

\* fetchHistory leaving out the groups whose timestamp does not parse
fetchHistoryDropsInvalid(resp, now, rnds) ==
    IF resp.status # "ok" THEN {<< >>}
    ELSE LET liveStocks == liveStocksOf(resp.stockData, rnds)
             groups == IF resp.hasHistorical
                           THEN SelectSeq(resp.historicalSnapshots,
                                          LAMBDA snap : snap.timestamp # Unparseable)
                           ELSE << >>
             history == [i \in 1..Len(groups) |->
                            historicalSnapshot(liveStocks, groups[i])]
         IN sortOutcomes(history \o << liveSnapshot(liveStocks, now) >>)

\* fetchHistory whose catch returns a live snapshot without stocks
fetchHistoryFailsOpen(resp, now, rnds) ==
    IF resp.status # "ok" THEN {<< liveSnapshot(<< >>, now) >>}
    ELSE LET liveStocks == liveStocksOf(resp.stockData, rnds)
             groups == IF resp.hasHistorical THEN resp.historicalSnapshots
                       ELSE << >>
             history == [i \in 1..Len(groups) |->
                            historicalSnapshot(liveStocks, groups[i])]
         IN sortOutcomes(history \o << liveSnapshot(liveStocks, now) >>)

\* The arrays fetchHistory() can resolve to, for the response resp, Date.now() =
\* now and the draws rnds of Math.random().
fetchHistory(resp, now, rnds) ==
    IF resp.status # "ok" THEN {<< >>}
    ELSE LET liveStocks == liveStocksOf(resp.stockData, rnds)
             groups == IF resp.hasHistorical THEN resp.historicalSnapshots
                       ELSE << >>
             history == [i \in 1..Len(groups) |->
                            historicalSnapshot(liveStocks, groups[i])]
         IN sortOutcomes(history \o << liveSnapshot(liveStocks, now) >>)

(***************************************************************************)
(* components/TimeTravelFooter.tsx: the 24h window and its index mapping   *)
(***************************************************************************)
\* array.findIndex(s => s.timestamp === t): the first index (0-based), or -1
findIndex(array, t) ==
    LET hits == {i \in 1..Len(array) : StrictEqNum(array[i].timestamp, t)}
    IN IF hits = {} THEN -1
       ELSE (CHOOSE i \in hits : \A j \in hits : i <= j) - 1

\* filteredHistory, evaluated with Date.now() = now
filteredHistoryOf(hist, now) ==
    IF Len(hist) = 0 THEN << >>
    ELSE SelectSeq(hist, LAMBDA snapshot : GreaterEq(snapshot.timestamp, now - DayMs))

\* filteredTimeIndex without the fallback to the last index of the window
filteredTimeIndexUnclamped(hist, filtered, idx) ==
    IF Len(filtered) = 0 THEN 0
    ELSE IF idx \notin 0..(Len(hist) - 1) THEN -1
    ELSE findIndex(filtered, hist[idx + 1].timestamp)

\* filteredTimeIndex: the index in the window of the snapshot at index idx
filteredTimeIndexOf(hist, filtered, idx) ==
    IF Len(filtered) = 0 THEN 0
    ELSE IF idx \notin 0..(Len(hist) - 1) THEN Len(filtered) - 1
    ELSE LET indexInFiltered == findIndex(filtered, hist[idx + 1].timestamp)
         IN IF indexInFiltered >= 0 THEN indexInFiltered ELSE Len(filtered) - 1

\* originalIdx of handleTimeIndexChange(filteredIdx), for a non-empty window and
\* filteredIdx one of its indices
originalIdxOf(hist, filtered, filteredIdx) ==
    findIndex(hist, filtered[filteredIdx + 1].timestamp)

\* displayHistory without the fallback to the whole store
displayHistoryWindowOnly(hist, filtered) == filtered

\* displayHistory, displayIndex, maxIndex
displayHistoryOf(hist, filtered) == IF Len(filtered) > 0 THEN filtered ELSE hist
displayIndexOf(hist, filtered, idx) ==
    IF Len(filtered) > 0 THEN filteredTimeIndexOf(hist, filtered, idx) ELSE idx
maxIndexOf(hist, filtered) ==
    IF Len(displayHistoryOf(hist, filtered)) > 0
        THEN Len(displayHistoryOf(hist, filtered)) - 1
        ELSE 0

(***************************************************************************)
(* hooks/useMarketData.ts and the components that use it: one session      *)
(***************************************************************************)
VARIABLES
    history,        \* useState<MarketSnapshot[]>([])
    timeIndex,      \* useState(0)
    loading,        \* useState(true)
    isPlaying,      \* useState(false)
    playbackRef,    \* useRef<number | null>(null): Null, or an interval id
    intervals,      \* the browser's active intervals: [id, length], length being
                    \* the history.length the callback's closure holds
    nextTimer,      \* the id the next window.setInterval returns
    fetchPending,   \* the promise of fetchHistory() has not settled
    mounted,        \* the component that owns useMarketData is mounted
    windowNow,      \* Date.now() of the evaluation of filteredHistory that the
                    \* footer's useMemo holds (0: not evaluated)
    clock,          \* Date.now() at the last render (0: before the fetch settles)
    feed,           \* what is kept of the response the fetch got (NoFeed: none
                    \* yet): its status, and under FeedSpec all of it
    lastOp          \* the operation that gave this state

vars == << history, timeIndex, loading, isPlaying, playbackRef, intervals,
           nextTimer, fetchPending, mounted, windowNow, clock, feed, lastOp >>

Null == 0

\* No response yet
NoFeed == [status |-> "pending"]

\* The responses a session's fetch can get: a fixed baseline with up to MaxHist
\* historical groups, their timestamps around the time of the fetch, or with no
\* historicalSnapshots at all; and the failures.
BaselineStocks ==
    << [ticker |-> Str("AAPL"), sector |-> Str("Technology"),
        status |-> Str("BULLISH"), signal |-> Str("NONE"),
        market_cap |-> Num("3000"), sma_50 |-> Num("190"), sma_200 |-> Num("180"),
        current_price |-> Num("195.5"), daily_change |-> Num("1.2"),
        strategy_return |-> Num("12.5"), rsi |-> Num("61"),
        volume |-> Num("52000000")],
       [ticker |-> Str("PFE"), sector |-> Str("Healthcare"),
        status |-> Str("BEARISH"), signal |-> Str("NONE"),
        market_cap |-> Num("160"), sma_50 |-> Num("28"), sma_200 |-> Num("30"),
        current_price |-> Num("27.1"), daily_change |-> Num("-0.4"),
        strategy_return |-> Num("-3.1"), rsi |-> Num("44"),
        volume |-> Num("31000000")] >>

GroupStocks ==
    << [ticker |-> Str("AAPL"), status |-> Str("BEARISH"), signal |-> Str("NONE"),
        sma_50 |-> Num("170"), sma_200 |-> Num("180")] >>

\* Raw timestamps of a group, for a fetch at now: unparseable, older than the
\* window, at its edge, inside it, and later than the fetch (the feed's clock
\* ahead of the browser's).
RawTimestamps(now) ==
    {Unparseable, now - 2 * DayMs, now - DayMs, now - HourMs, now + HourMs}

SeqsUpTo(S, n) == UNION {[1..m -> S] : m \in 0..n}

SessionResponses(now) ==
    {[status |-> "ok", stockData |-> BaselineStocks, hasHistorical |-> TRUE,
      historicalSnapshots |-> [i \in 1..Len(ts) |->
                                  [timestamp |-> ts[i], stocks |-> GroupStocks]]] :
        ts \in SeqsUpTo(RawTimestamps(now), MaxHist)}
    \cup
    {[status |-> "ok", stockData |-> BaselineStocks, hasHistorical |-> FALSE,
      historicalSnapshots |-> << >>]}
    \cup
    {[status |-> f, stockData |-> << >>, hasHistorical |-> FALSE,
      historicalSnapshots |-> << >>] : f \in FailureStatuses}

NoDraws == [i \in 1..Len(BaselineStocks) |-> "lo"]

\* The records of stockData where they vary: AAPL as above, and PFE without a
\* market_cap (generateMarketCap supplies it).
RawItems ==
    {BaselineStocks[1],
     [k \in DOMAIN BaselineStocks[2] \ {"market_cap"} |-> BaselineStocks[2][k]]}

\* The partial records of a group where they vary: AAPL with the four fields the
\* merge overrides; the same with a price of its own and an empty market_cap;
\* PFE with a status and nothing else; and a ticker stockData does not have.
PartialRecords ==
    {GroupStocks[1],
     [ticker |-> Str("AAPL"), status |-> Str("BEARISH"), signal |-> Str("SELL"),
      sma_50 |-> Num("170"), sma_200 |-> Num("175"), current_price |-> Num("150"),
      market_cap |-> Str("")],
     [ticker |-> Str("PFE"), status |-> Str("BULLISH")],
     [ticker |-> Str("ZZZ"), status |-> Str("NEUTRAL"), signal |-> Str("NONE"),
      sma_50 |-> Num("1"), sma_200 |-> Num("2")]}

\* The records of stockData where only they vary: AAPL with each status, and
\* PFE without its ticker.
StatusItems ==
    {[BaselineStocks[1] EXCEPT !.status = Str(st)] :
        st \in {"BULLISH", "BEARISH", "NEUTRAL"}}
    \cup
    {[k \in DOMAIN BaselineStocks[2] \ {"ticker"} |-> BaselineStocks[2][k]]}

\* stockData of total records, the first bullishCount of them BULLISH and the
\* rest BEARISH
StatusList(bullishCount, total) ==
    [i \in 1..total |->
        [BaselineStocks[1] EXCEPT
            !.status = Str(IF i <= bullishCount THEN "BULLISH" ELSE "BEARISH")]]

\* The responses without historicalSnapshots: of any of StatusItems up to
\* MaxEntities, and of any number of BULLISH records among up to MaxListLen.
BaselineResponses ==
    {[status |-> "ok", stockData |-> items, hasHistorical |-> FALSE,
      historicalSnapshots |-> << >>] :
        items \in SeqsUpTo(StatusItems, MaxEntities)
                  \cup UNION {{StatusList(b, t) : b \in 0..t} : t \in 1..MaxListLen}}

\* The responses of a session, and those with one historical group, an hour
\* old, of any records.
FeedResponses(now) ==
    SessionResponses(now)
    \cup
    {[status |-> "ok", stockData |-> items, hasHistorical |-> TRUE,
      historicalSnapshots |-> << [timestamp |-> now - HourMs, stocks |-> partials] >>] :
        items \in SeqsUpTo(RawItems, MaxStocks),
        partials \in SeqsUpTo(PartialRecords, MaxPartials)}

Init ==
    /\ history = << >>
    /\ timeIndex = 0
    /\ loading = TRUE
    /\ isPlaying = FALSE
    /\ playbackRef = Null
    /\ intervals = {}
    /\ nextTimer = 1
    /\ fetchPending = TRUE
    /\ mounted = TRUE
    /\ windowNow = 0
    /\ clock = 0
    /\ feed = NoFeed
    /\ lastOp = "mount"

\* clearInterval(id)
clearInterval(active, id) == {iv \in active : iv.id # id}

\* clearPlayback with the clearInterval forgotten
clearPlaybackForgotten(ref, active) == active

\* if (playbackRef.current) clearInterval(playbackRef.current): the else branch
\* of the playback effect, and its cleanup
clearPlayback(ref, active) ==
    IF ref # Null THEN clearInterval(active, ref) ELSE active

\* The dependencies [isPlaying, history.length] of the playback effect differ
\* from those of the last render.
playbackDepsChanged(playing, length) ==
    << playing, length >> # << isPlaying, Len(history) >>

\* The body of the playback effect, run with the values of the new render.
playbackEffect(playing, length, ref, active, next) ==
    IF playing
        THEN [ref |-> next,
              active |-> active \cup {[id |-> next, length |-> length]},
              next |-> next + 1]
        ELSE [ref |-> ref, active |-> clearPlayback(ref, active), next |-> next]

\* The commit without the cleanup of the last effect
CommitWithoutCleanup(playing, length) ==
    IF playbackDepsChanged(playing, length)
        THEN LET r == playbackEffect(playing, length, playbackRef, intervals, nextTimer)
             IN /\ playbackRef' = r.ref
                /\ intervals' = r.active
                /\ nextTimer' = r.next
        ELSE UNCHANGED << playbackRef, intervals, nextTimer >>

\* The commit of a render with the new isPlaying and history.length: when the
\* dependencies changed, the last effect's cleanup and then the effect.  They
\* are one step with the update that caused the render: React flushes the
\* effects of an update made in a click or input handler before the handler
\* returns, and the effects of any other update before it handles the next
\* setState, so no callback of the interval sees the state in between.
Commit(playing, length) ==
    IF playbackDepsChanged(playing, length)
        THEN LET r == playbackEffect(playing, length, playbackRef,
                                     clearPlayback(playbackRef, intervals), nextTimer)
             IN /\ playbackRef' = r.ref
                /\ intervals' = r.active
                /\ nextTimer' = r.next
        ELSE UNCHANGED << playbackRef, intervals, nextTimer >>

\* <TimeTravelFooter> is rendered: !loading && history.length > 0
footerShown == mounted /\ ~loading /\ Len(history) > 0

filteredHistory == filteredHistoryOf(history, windowNow)

\* loadData issued again after a fetch that failed
loadDataRetries(resp, kept, now, delay, rnds) ==
    /\ fetchPending
    /\ fetchPending' = (resp.status # "ok")
    /\ lastOp' = "fetch"
    /\ feed' = kept
    /\ clock' = now + delay
    /\ \E snapshots \in fetchHistory(resp, now, rnds) :
          IF mounted
              THEN /\ history' = snapshots
                   /\ timeIndex' = Len(snapshots) - 1
                   /\ loading' = FALSE
                   /\ Commit(isPlaying, Len(snapshots))
                   /\ windowNow' = IF Len(snapshots) > 0 THEN now + delay
                                   ELSE windowNow
                   /\ UNCHANGED << isPlaying, mounted >>
              ELSE UNCHANGED << history, timeIndex, loading, isPlaying,
                                playbackRef, intervals, nextTimer, mounted,
                                windowNow >>

\* loadData without its finally: setLoading(false) only with a built store
loadDataStaysLoading(resp, kept, now, delay, rnds) ==
    /\ fetchPending
    /\ fetchPending' = FALSE
    /\ lastOp' = "fetch"
    /\ feed' = kept
    /\ clock' = now + delay
    /\ \E snapshots \in fetchHistory(resp, now, rnds) :
          IF mounted
              THEN /\ history' = snapshots
                   /\ timeIndex' = Len(snapshots) - 1
                   /\ loading' = (Len(snapshots) = 0)
                   /\ Commit(isPlaying, Len(snapshots))
                   /\ windowNow' = IF Len(snapshots) > 0 THEN now + delay
                                   ELSE windowNow
                   /\ UNCHANGED << isPlaying, mounted >>
              ELSE UNCHANGED << history, timeIndex, loading, isPlaying,
                                playbackRef, intervals, nextTimer, mounted,
                                windowNow >>

\* loadData() after the fetch got resp: fetchHistory never rejects, so the three
\* setters run in one batch; an unmounted component ignores them.  now is the
\* Date.now() of fetchHistory, now + delay that of the render that follows, and
\* kept what feed keeps of resp.
loadData(resp, kept, now, delay, rnds) ==
    /\ fetchPending
    /\ fetchPending' = FALSE
    /\ lastOp' = "fetch"
    /\ feed' = kept
    /\ clock' = now + delay
    /\ \E snapshots \in fetchHistory(resp, now, rnds) :
          IF mounted
              THEN /\ history' = snapshots
                   /\ timeIndex' = Len(snapshots) - 1
                   /\ loading' = FALSE
                   /\ Commit(isPlaying, Len(snapshots))
                   /\ windowNow' = IF Len(snapshots) > 0 THEN now + delay
                                   ELSE windowNow
                   /\ UNCHANGED << isPlaying, mounted >>
              ELSE UNCHANGED << history, timeIndex, loading, isPlaying,
                                playbackRef, intervals, nextTimer, mounted,
                                windowNow >>

\* The one fetch of the session settles.
FetchSettles ==
    \E now \in FetchTimes, delay \in RenderDelays :
    \E resp \in SessionResponses(now) :
        loadData(resp, [status |-> resp.status], now, delay, NoDraws)

\* The one fetch of the session settles, on a feed of any records and with
\* any draws of Math.random().
FetchFeed ==
    \E now \in FetchTimes :
    \E resp \in FeedResponses(now) :
    \E rnds \in [1..Len(resp.stockData) -> RandomDraws] :
        loadData(resp, resp, now, 0, rnds)

\* The one fetch of the session settles, on a feed of stockData alone.
FetchBaseline ==
    \E now \in FetchTimes :
    \E resp \in BaselineResponses :
        loadData(resp, resp, now, 0, [i \in 1..Len(resp.stockData) |-> "lo"])

\* The play/pause button, not playing: setIsPlaying(!isPlaying)
Play ==
    /\ footerShown
    /\ ~isPlaying
    /\ nextTimer <= MaxTimers
    /\ isPlaying' = TRUE
    /\ Commit(TRUE, Len(history))
    /\ lastOp' = "play"
    /\ UNCHANGED << history, timeIndex, loading, fetchPending, mounted,
                    windowNow, clock, feed >>

\* The play/pause button, playing: setIsPlaying(!isPlaying)
Stop ==
    /\ footerShown
    /\ isPlaying
    /\ isPlaying' = FALSE
    /\ Commit(FALSE, Len(history))
    /\ lastOp' = "stop"
    /\ UNCHANGED << history, timeIndex, loading, fetchPending, mounted,
                    windowNow, clock, feed >>

\* tickUpdater wrapping to the oldest snapshot at the end
tickUpdaterWraps(prev, length) ==
    IF prev >= length - 1
        THEN [index |-> 0, stop |-> FALSE]
        ELSE [index |-> prev + 1, stop |-> FALSE]

\* tickUpdater without the setIsPlaying(false) at the end
tickUpdaterNeverStops(prev, length) ==
    IF prev >= length - 1
        THEN [index |-> prev, stop |-> FALSE]
        ELSE [index |-> prev + 1, stop |-> FALSE]

\* The updater the interval's callback gives setTimeIndex, with the
\* history.length of its closure: the new index, and whether it calls
\* setIsPlaying(false).
tickUpdater(prev, length) ==
    IF prev >= length - 1
        THEN [index |-> prev, stop |-> TRUE]
        ELSE [index |-> prev + 1, stop |-> FALSE]

\* An active interval fires.
Tick ==
    \E iv \in intervals :
        /\ lastOp' = "tick"
        /\ IF mounted
              THEN LET u == tickUpdater(timeIndex, iv.length)
                       playing == IF u.stop THEN FALSE ELSE isPlaying
                   IN /\ timeIndex' = u.index
                      /\ isPlaying' = playing
                      /\ Commit(playing, Len(history))
              ELSE UNCHANGED << timeIndex, isPlaying, playbackRef, intervals,
                                nextTimer >>
        /\ UNCHANGED << history, loading, fetchPending, mounted,
                    windowNow, clock, feed >>

\* handleTimeIndexChange(filteredIdx), filteredIdx a value of the range input
Scrub ==
    /\ footerShown
    /\ \E filteredIdx \in 0..maxIndexOf(history, filteredHistory) :
          /\ Len(filteredHistory) # 0
          /\ filteredIdx < Len(filteredHistory)
          /\ originalIdxOf(history, filteredHistory, filteredIdx) >= 0
          /\ isPlaying' = FALSE
          /\ timeIndex' = originalIdxOf(history, filteredHistory, filteredIdx)
          /\ Commit(FALSE, Len(history))
    /\ lastOp' = "scrub"
    /\ UNCHANGED << history, loading, fetchPending, mounted,
                    windowNow, clock, feed >>

\* The "Reset to Live" button
ResetToLive ==
    /\ footerShown
    /\ isPlaying' = FALSE
    /\ timeIndex' = Len(history) - 1
    /\ Commit(FALSE, Len(history))
    /\ lastOp' = "reset"
    /\ UNCHANGED << history, loading, fetchPending, mounted,
                    windowNow, clock, feed >>

\* Unmount of an effect that returns no cleanup
UnmountWithoutCleanup ==
    /\ mounted
    /\ mounted' = FALSE
    /\ lastOp' = "unmount"
    /\ UNCHANGED << history, timeIndex, loading, isPlaying, playbackRef,
                    intervals, nextTimer, fetchPending, windowNow,
                    clock, feed >>

\* The component unmounts: the playback effect's cleanup runs.
Unmount ==
    /\ mounted
    /\ mounted' = FALSE
    /\ intervals' = clearPlayback(playbackRef, intervals)
    /\ lastOp' = "unmount"
    /\ UNCHANGED << history, timeIndex, loading, isPlaying, playbackRef,
                    nextTimer, fetchPending, windowNow,
                    clock, feed >>

\* The setTimeIndex that useMarketData returns, called by itself with an index
\* of the store.
SetTimeIndex ==
    /\ mounted
    /\ \E index \in 0..(Len(history) - 1) : timeIndex' = index
    /\ lastOp' = "setTimeIndex"
    /\ UNCHANGED << history, loading, isPlaying, playbackRef, intervals,
                    nextTimer, fetchPending, mounted,
                    windowNow, clock, feed >>

\* The footer renders again an hour later, history the same array: the useMemo
\* of filteredHistory, its dependencies [history] unchanged, returns the value it
\* holds and does not call Date.now() again.
Rerender ==
    /\ footerShown
    /\ clock - windowNow < MaxRerenders * HourMs
    /\ clock' = clock + HourMs
    /\ lastOp' = "render"
    /\ UNCHANGED << history, timeIndex, loading, isPlaying, playbackRef,
                    intervals, nextTimer, fetchPending, mounted, windowNow, feed >>

\* setIsPlaying(playing), called on the hook directly
SetIsPlaying ==
    /\ mounted
    /\ \E playing \in BOOLEAN :
          /\ playing => nextTimer <= MaxTimers
          /\ isPlaying' = playing
          /\ Commit(playing, Len(history))
    /\ lastOp' = "setIsPlaying"
    /\ UNCHANGED << history, timeIndex, loading, fetchPending, mounted,
                    windowNow, clock, feed >>

Next ==
    \/ FetchSettles
    \/ Play
    \/ Stop
    \/ Tick
    \/ Scrub
    \/ ResetToLive
    \/ Unmount

\* The application: useMarketData as App and TimeTravelFooter use it.
Spec == Init /\ [][Next]_vars

\* The same, the interval firing as long as it is active.
FairSpec == Spec /\ WF_vars(Tick)

\* The session, where the fetch of the mount settles: the promise of fetch
\* resolves or rejects.
LoadFairSpec == Spec /\ WF_vars(fetchPending /\ FetchSettles)

\* The hook by itself: its setTimeIndex is also called directly.
HookNext == Next \/ SetTimeIndex
HookSpec == Init /\ [][HookNext]_vars

\* The hook by itself, its setIsPlaying also called directly: playback can be
\* started before the store is built.
PlaybackNext == HookNext \/ SetIsPlaying
PlaybackSpec == Init /\ [][PlaybackNext]_vars

\* The load of a session, for the feeds whose records vary.
FeedNext == FetchFeed \/ Unmount
FeedSpec == Init /\ [][FeedNext]_vars

\* The load of a session, for the feeds of stockData alone.
BaselineNext == FetchBaseline \/ Unmount
BaselineSpec == Init /\ [][BaselineNext]_vars

\* The application with the wall clock going on while the footer is shown.
ClockNext == Next \/ Rerender
ClockSpec == Init /\ [][ClockNext]_vars

(***************************************************************************)
(* Properties                                                              *)
(***************************************************************************)
\* isTimeTraveling with <= for <
isTimeTravelingOffByOne == Len(history) > 0 /\ timeIndex <= Len(history) - 1

\* isTimeTraveling of useMarketData
isTimeTraveling == Len(history) > 0 /\ timeIndex < Len(history) - 1

\* stocks of useMarketData: the entities of the snapshot at the position
stocks ==
    IF Len(history) = 0 THEN << >>
    ELSE IF timeIndex \in 0..(Len(history) - 1) THEN history[timeIndex + 1].data
    ELSE << >>

\* The fetch has settled in the mounted component: history is what
\* fetchHistory returned.
storeBuilt == ~fetchPending /\ ~loading

\* C1: in every store fetchHistory returns, adjacent snapshots are in timestamp
\* order: store[i].timestamp <= store[i+1].timestamp for every i in
\* 0..length-2.
C1_SortInvariant ==
    storeBuilt =>
        \A i \in 1..(Len(history) - 1) :
            LessEq(history[i].timestamp, history[i + 1].timestamp)

\* C2: once playback is stopped no interval is left to fire, and the position
\* stays where it is until playback is started again or the position is set by
\* hand (scrub, reset, the fetch).
C2_NoTickAfterStop ==
    /\ [](~isPlaying => intervals = {})
    /\ [][(~isPlaying /\ lastOp' \notin {"fetch", "scrub", "reset", "setTimeIndex"})
            => timeIndex' = timeIndex]_vars

\* C2's case: playback was stopped by the button below the newest position,
\* after an interval had been created.
C2_Witness ==
    /\ lastOp = "stop"
    /\ ~isPlaying
    /\ playbackRef # Null
    /\ timeIndex < Len(history) - 1

\* C3: a tick moves the position by exactly +1 below length-1 and leaves it
\* unchanged at or above length-1; it fires only while playing.
C3_TickAdvancesByOne ==
    [][(lastOp' = "tick")
        => /\ isPlaying
           /\ timeIndex' = IF timeIndex < Len(history) - 1 THEN timeIndex + 1
                           ELSE timeIndex
           /\ timeIndex' \in 0..(Len(history) - 1)]_vars

\* C3's case: a tick has advanced the position, playback going on.
C3_Witness ==
    /\ lastOp = "tick"
    /\ isPlaying
    /\ timeIndex > 0
    /\ timeIndex < Len(history) - 1

\* C4: the tick that moves the position to length-1 is the tick on which the
\* controller leaves Playing, and a tick at length-1 does not advance the
\* position.
C4_StopsOnReachingEnd ==
    /\ [][(lastOp' = "tick" /\ timeIndex # Len(history) - 1
                /\ timeIndex' = Len(history) - 1)
            => ~isPlaying']_vars
    /\ [][(lastOp' = "tick" /\ timeIndex = Len(history) - 1)
            => timeIndex' = timeIndex]_vars

\* C5: every manual position change (setTimeIndex, a scrub, reset-to-live)
\* applied while playing leaves isPlaying false.
C5_ManualChangeStops ==
    [][(isPlaying /\ lastOp' \in {"setTimeIndex", "scrub", "reset"})
        => ~isPlaying']_vars

\* C6: after teardown no interval is left to fire and the position is not
\* changed any more.
C6_NoTickAfterTeardown ==
    /\ [](~mounted => intervals = {})
    /\ [][~mounted => timeIndex' = timeIndex]_vars

\* C6's case: the component was torn down while playing, its interval created.
C6_Witness ==
    /\ ~mounted
    /\ isPlaying
    /\ playbackRef # Null
    /\ timeIndex < Len(history) - 1

\* C7: the position is an index of the store: never negative, and never more
\* than max(length-1, 0), also for a store built empty.
C7_PositionInRange ==
    /\ timeIndex >= 0
    /\ timeIndex <= (IF Len(history) > 0 THEN Len(history) - 1 ELSE 0)

\* C8: playback that was started halts by itself at the newest position, unless
\* a stop, a manual position change or the teardown comes first.
C8_EventuallyHalts ==
    (mounted /\ isPlaying)
        ~> \/ ~mounted
           \/ lastOp \in {"stop", "scrub", "reset"}
           \/ (~isPlaying /\ lastOp = "tick" /\ timeIndex = Len(history) - 1)

\* C8's case: playback ran from an older position and a tick halted it.
C8_Witness ==
    /\ mounted
    /\ ~isPlaying
    /\ lastOp = "tick"
    /\ Len(history) >= 3
    /\ timeIndex = Len(history) - 1

\* C9: in a store built by a successful fetch (from parseable timestamps) the
\* live snapshot is the last element, so the initial position length-1 selects
\* it.
C9_LiveIsLast ==
    (storeBuilt /\ Len(history) > 0
        /\ \A i \in 1..Len(history) : history[i].timestamp # NaN)
        => /\ history[Len(history)].label = LiveLabel
           /\ history[Len(history)].data = liveStocksOf(BaselineStocks, NoDraws)
           /\ (lastOp = "fetch" => history[timeIndex + 1].label = LiveLabel)

\* toWindowIndex and toFullIndex of the index translation
toWindowIndex(i) == filteredTimeIndexOf(history, filteredHistory, i)
toFullIndex(w) == originalIdxOf(history, filteredHistory, w)

inWindow(i) == GreaterEq(history[i + 1].timestamp, windowNow - DayMs)

\* C10: for every index i of a store (of parseable timestamps, its window not
\* empty), toFullIndex(toWindowIndex(i)) is an index inside the window, i itself
\* when snapshot i is in the window and length-1 when it is older.
C10_RoundTrip ==
    (storeBuilt /\ Len(filteredHistory) > 0
        /\ \A i \in 1..Len(history) : history[i].timestamp # NaN)
        => \A i \in 0..(Len(history) - 1) :
              LET r == toFullIndex(toWindowIndex(i)) IN
              /\ r \in 0..(Len(history) - 1)
              /\ inWindow(r)
              /\ inWindow(i) => r = i
              /\ ~inWindow(i) => r = Len(history) - 1

\* C11: with a window that is not empty, toWindowIndex(i) is an index of the
\* window for every i: the window position of a snapshot with the timestamp of
\* history[i] when snapshot i is in the window, and the last index of the
\* window when snapshot i is not in it or i selects no snapshot.
C11_WindowIndex ==
    (storeBuilt /\ Len(filteredHistory) > 0)
        => \A i \in -1..Len(history) :
              LET r == toWindowIndex(i)
                  selects == i \in 0..(Len(history) - 1)
              IN /\ r \in 0..(Len(filteredHistory) - 1)
                 /\ (selects /\ inWindow(i))
                        => filteredHistory[r + 1].timestamp = history[i + 1].timestamp
                 /\ (~selects \/ ~inWindow(i)) => r = Len(filteredHistory) - 1

\* C11's case: a store with a snapshot older than the window and two snapshots
\* in it, so that a window position differs from the store position.
C11_Witness ==
    /\ storeBuilt
    /\ Len(filteredHistory) >= 2
    /\ \E i \in 0..(Len(history) - 1) : ~inWindow(i)
    /\ \E i \in 0..(Len(history) - 1) :
          inWindow(i) /\ toWindowIndex(i) # i /\ toWindowIndex(i) # Len(filteredHistory) - 1

\* C12: the window is the subsequence, in store order, of the snapshots whose
\* timestamp t has now - 24h <= t <= now, now being the time the window was
\* evaluated at: none later than now and none older than now - 24h is in it.
C12_WindowBounds ==
    footerShown
        => /\ filteredHistory =
                SelectSeq(history, LAMBDA snapshot :
                    /\ GreaterEq(snapshot.timestamp, windowNow - DayMs)
                    /\ LessEq(snapshot.timestamp, windowNow))
           /\ \A i \in 1..Len(filteredHistory) :
                 /\ LessEq(filteredHistory[i].timestamp, windowNow)
                 /\ GreaterEq(filteredHistory[i].timestamp, windowNow - DayMs)

\* C13: the window the footer presents at a render is evaluated against the
\* wall clock of that render: it is filteredHistory for Date.now() = clock, and
\* a snapshot that has become older than 24h by then is not in it.
C13_WindowFollowsClock ==
    footerShown
        => /\ filteredHistory = filteredHistoryOf(history, clock)
           /\ \A i \in 1..Len(filteredHistory) :
                 GreaterEq(filteredHistory[i].timestamp, clock - DayMs)

\* C14: when the store is not empty and none of its snapshots is in the 24h
\* window, the footer presents the whole store: the displayed sequence is the
\* store, the displayed index is the playback position, and the slider's
\* maximum is length - 1.
C14_EmptyWindowShowsStore ==
    (footerShown /\ Len(filteredHistory) = 0)
        => /\ displayHistoryOf(history, filteredHistory) = history
           /\ displayIndexOf(history, filteredHistory, timeIndex) = timeIndex
           /\ maxIndexOf(history, filteredHistory) = Len(history) - 1

\* C14's case: the footer is shown for a store of three snapshots, all of them
\* older than the window of its first render.
C14_Witness ==
    /\ footerShown
    /\ Len(history) >= 3
    /\ Len(filteredHistory) = 0

\* C15: when the fetch fails (response not ok, network error, JSON parse error,
\* a document without a stockData array) fetchHistory resolves to the empty
\* store and loadData completes: the session has history of length 0, no
\* current entities, and isTimeTraveling false.
C15_FailureGivesEmptyStore ==
    (~fetchPending /\ feed.status \in FailureStatuses)
        => /\ history = << >>
           /\ stocks = << >>
           /\ ~isTimeTraveling
           /\ mounted => ~loading

\* C15's case: the fetch of a mounted session has just failed on the parse of
\* the response.
C15_Witness ==
    /\ lastOp = "fetch"
    /\ mounted
    /\ ~loading
    /\ feed.status = "parseError"

\* C16: the store is assigned at most once in a session, when its one fetch
\* settles: after that no fetch settles again, whether the first gave a store
\* or failed, and play, stop, tick, scrub, reset-to-live and setTimeIndex leave
\* the store as it is.
C16_StoreAssignedOnce ==
    /\ [][(feed # NoFeed) => (lastOp' # "fetch" /\ history' = history)]_vars
    /\ [][(lastOp' \in {"play", "stop", "tick", "scrub", "reset", "setTimeIndex"})
            => history' = history]_vars
    /\ [][feed = NoFeed => (history = << >> /\ fetchPending)]_vars

\* C16's case: the fetch gave a store of three snapshots and playback, a scrub
\* and ticks came after it.
C16_Witness ==
    /\ feed # NoFeed
    /\ Len(history) = 3
    /\ lastOp = "tick"
    /\ timeIndex = 1

\* C17: a fetch that succeeds on a feed of n historical groups gives a store of
\* n + 1 snapshots; with historicalSnapshots empty or absent the store has one
\* snapshot, the live one.
C17_StoreLength ==
    (storeBuilt /\ feed.status = "ok")
        => LET n == IF feed.hasHistorical THEN Len(feed.historicalSnapshots) ELSE 0
           IN /\ Len(history) = n + 1
              /\ n = 0 => /\ history[1].label = LiveLabel
                          /\ \E rnds \in [1..Len(feed.stockData) -> RandomDraws] :
                                history[1].data = liveStocksOf(feed.stockData, rnds)

\* C17's case: a feed of two groups, one of them with a timestamp that does not
\* parse, has given a store.
C17_Witness ==
    /\ storeBuilt
    /\ feed.status = "ok"
    /\ feed.hasHistorical
    /\ Len(feed.historicalSnapshots) = 2
    /\ \E i \in 1..2 : feed.historicalSnapshots[i].timestamp = Unparseable
    /\ Len(history) = 3

\* The entities of the live snapshot of the store: liveStocks of fetchHistory
liveStocksOfStore ==
    history[CHOOSE k \in 1..Len(history) : history[k].label = LiveLabel].data

\* The partial records of a group whose ticker is the ticker of a live stock
matchedPartials(partials) ==
    SelectSeq(partials, LAMBDA partialStock :
        \E i \in 1..Len(liveStocksOfStore) :
            Get(liveStocksOfStore[i], "ticker") = Get(partialStock, "ticker"))

\* The snapshot of the store is the snapshot of the group snap
snapshotOfGroup(snapshot, snap) ==
    /\ snapshot.label # LiveLabel
    /\ snapshot.timestamp = DateGetTime(snap.timestamp)

\* C18: a partial record whose ticker is the ticker of no baseline entity is
\* left out of its snapshot: no entity of the snapshot has its ticker, and the
\* snapshot's entities are those, in the same order, that the group without
\* that record gives.
C18_UnmatchedLeftOut ==
    (storeBuilt /\ feed.status = "ok")
        => \A g \in 1..Len(feed.historicalSnapshots) :
           \A k \in 1..Len(history) :
              LET snap == feed.historicalSnapshots[g]
                  kept == matchedPartials(snap.stocks)
              IN snapshotOfGroup(history[k], snap)
                    => /\ Len(history[k].data) = Len(kept)
                       /\ history[k].data = snapshotStocks(liveStocksOfStore, kept)
                       /\ \A j \in 1..Len(history[k].data) :
                             /\ Get(history[k].data[j], "ticker") = Get(kept[j], "ticker")
                             /\ \E i \in 1..Len(liveStocksOfStore) :
                                   Get(liveStocksOfStore[i], "ticker")
                                       = Get(history[k].data[j], "ticker")

\* C18's case: a group of an unmatched record followed by a matched one has
\* given a snapshot of one entity.
C18_Witness ==
    /\ storeBuilt
    /\ feed.status = "ok"
    /\ \E g \in 1..Len(feed.historicalSnapshots) :
       \E k \in 1..Len(history) :
          LET snap == feed.historicalSnapshots[g] IN
          /\ snapshotOfGroup(history[k], snap)
          /\ Len(snap.stocks) = 2
          /\ Len(matchedPartials(snap.stocks)) = 1
          /\ matchedPartials(snap.stocks)[1] = snap.stocks[2]
          /\ Len(history[k].data) = 1

\* The set of tickers of a sequence of entities
tickersOf(entities) == {Get(entities[i], "ticker") : i \in 1..Len(entities)}

\* C19: every snapshot of the store, historical or live, holds exactly one
\* entity per baseline ticker: the tickers of its data are the tickers of
\* stockData (each of them once there), none missing and none repeated.
C19_OneEntityPerTicker ==
    (storeBuilt /\ feed.status = "ok"
        /\ Len(feed.stockData) = Cardinality(tickersOf(feed.stockData)))
        => \A k \in 1..Len(history) :
              /\ tickersOf(history[k].data) = tickersOf(feed.stockData)
              /\ Len(history[k].data) = Cardinality(tickersOf(history[k].data))

\* C20: in a merged entity every field the partial record has holds the
\* partial's value, every field it lacks (status, signal, sma_50 and sma_200
\* among them) holds the baseline's value, and sma_50 and sma_200 are strings.
C20_MergePrecedence ==
    (storeBuilt /\ feed.status = "ok")
        => \A g \in 1..Len(feed.historicalSnapshots) :
           \A k \in 1..Len(history) :
              LET snap == feed.historicalSnapshots[g]
                  kept == matchedPartials(snap.stocks)
              IN snapshotOfGroup(history[k], snap)
                    => \A j \in 1..Len(history[k].data) :
                          LET merged == history[k].data[j]
                              partialStock == kept[j]
                              baseStock == liveStocksOfStore[
                                  findBaseStock(liveStocksOfStore, partialStock)]
                          IN /\ \A key \in DOMAIN partialStock :
                                   Get(merged, key).val = partialStock[key].val
                             /\ \A key \in DOMAIN baseStock \ DOMAIN partialStock :
                                   Get(merged, key) = baseStock[key]
                             /\ Get(merged, "sma_50").type = "string"
                             /\ Get(merged, "sma_200").type = "string"

\* a < b on numbers: false when either is NaN
LessThan(a, b) == a # NaN /\ b # NaN /\ a < b

\* C21: the timestamps of a store (of parseable timestamps) are unique and
\* strictly increasing along it: store[i].timestamp < store[j].timestamp for
\* all i < j, the live snapshot included.
C21_StrictlyIncreasing ==
    (storeBuilt /\ \A i \in 1..Len(history) : history[i].timestamp # NaN)
        => \A i, j \in 1..Len(history) :
              i < j => LessThan(history[i].timestamp, history[j].timestamp)

\* C22: no snapshot of a store has an invalid (NaN) timestamp: a group whose
\* timestamp does not parse is dropped.
C22_NoInvalidTimestamp ==
    storeBuilt => \A i \in 1..Len(history) : history[i].timestamp # NaN

\* currentSnapshotLabel of useMarketData: history[timeIndex]?.label || 'Loading...'
LoadingLabel == [text |-> "Loading...", minute |-> 0]
currentSnapshotLabel ==
    IF timeIndex \in 0..(Len(history) - 1) THEN history[timeIndex + 1].label
    ELSE LoadingLabel

\* What a render of useMarketData reads at the position: history[timeIndex]?.data
\* and history[timeIndex]?.label with their fallbacks.  Optional chaining and ||
\* throw nothing, whatever the position.
currentSnapshotRead ==
    [threw |-> FALSE, stocks |-> stocks, label |-> currentSnapshotLabel]

\* C23: reading the current snapshot at a position outside 0..length-1 fails
\* (IndexOutOfRange); it gives no empty entity set and no placeholder label.
C23_ReadFailsOutOfRange ==
    (mounted /\ ~loading /\ timeIndex \notin 0..(Len(history) - 1))
        => /\ currentSnapshotRead.threw
           /\ currentSnapshotRead.stocks # << >>
           /\ currentSnapshotRead.label # LoadingLabel

\* C24: in every state isTimeTraveling is true exactly when the store is not
\* empty and the position is not the newest index length-1: it is false at
\* length-1 and false for an empty store.
C24_HistoricalIffNotNewest ==
    /\ isTimeTraveling <=> (Len(history) > 0 /\ timeIndex # Len(history) - 1)
    /\ timeIndex = Len(history) - 1 => ~isTimeTraveling
    /\ Len(history) = 0 => ~isTimeTraveling

\* C24's case: the position was set to the oldest of three snapshots.
C24_Witness ==
    /\ isTimeTraveling
    /\ Len(history) = 3
    /\ timeIndex = 0
    /\ lastOp = "setTimeIndex"

(***************************************************************************)
(* utils/analytics.ts: calculateSentiment.  Its quotient and product are   *)
(* IEEE 754 doubles.  A positive double is [hi, mid, lo, e]: its 53-bit    *)
(* significand is hi * 2^40 + mid * 2^20 + lo, 2^12 <= hi < 2^13, and its  *)
(* value is significand * 2^(e - 52).                                      *)
(***************************************************************************)
Limb == 2 ^ 20

\* The double one unit in the last place above x
nextUp(x) ==
    IF x.lo + 1 < Limb THEN [x EXCEPT !.lo = x.lo + 1]
    ELSE IF x.mid + 1 < Limb THEN [x EXCEPT !.lo = 0, !.mid = x.mid + 1]
    ELSE IF x.hi + 1 < 2 ^ 13 THEN [x EXCEPT !.lo = 0, !.mid = 0, !.hi = x.hi + 1]
    ELSE [hi |-> 2 ^ 12, mid |-> 0, lo |-> 0, e |-> x.e + 1]

\* Round to nearest, ties to even: x is the exact value cut after 53 bits and
\* rest / unit, in 0 .. 1, the part of a unit in the last place cut off
roundToDouble(x, rest, unit) ==
    IF 2 * rest > unit \/ (2 * rest = unit /\ x.lo % 2 = 1) THEN nextUp(x) ELSE x

\* The least s with b * 2^s >= t
RECURSIVE shiftOf(_, _)
shiftOf(b, t) == IF b >= t THEN 0 ELSE 1 + shiftOf(2 * b, t)

\* b / t as a double, for integers 0 < b <= t < 2^11: long division of
\* b * 2^s by t, 1 + 12 + 20 + 20 bits of the quotient, then the rounding
Divide(b, t) ==
    LET s == shiftOf(b, t)
        r0 == (b * (2 ^ s)) - t
        r1 == (r0 * (2 ^ 12)) % t
        r2 == (r1 * Limb) % t
        r3 == (r2 * Limb) % t
    IN roundToDouble([hi |-> (2 ^ 12) + ((r0 * (2 ^ 12)) \div t),
                      mid |-> (r1 * Limb) \div t,
                      lo |-> (r2 * Limb) \div t,
                      e |-> 0 - s], r3, t)

\* x * 100 as a double: the exact product has 59 or 60 bits, of which the last
\* k = 6 or 7 are cut off and rounded
Times100(x) ==
    LET p0 == x.lo * 100
        p1 == (x.mid * 100) + (p0 \div Limb)
        p2 == (x.hi * 100) + (p1 \div Limb)
        k == IF p2 >= 2 ^ 19 THEN 7 ELSE 6
    IN roundToDouble([hi |-> p2 \div (2 ^ k),
                      mid |-> ((p2 % (2 ^ k)) * (2 ^ (20 - k))) + ((p1 % Limb) \div (2 ^ k)),
                      lo |-> ((p1 % (2 ^ k)) * (2 ^ (20 - k))) + ((p0 % Limb) \div (2 ^ k)),
                      e |-> x.e + k], p0 % (2 ^ k), 2 ^ k)

\* Math.round(x) for a double 0 < x < 2^12: the nearest integer, a half going
\* up
MathRound(x) ==
    IF x.e < -1 THEN 0
    ELSE IF x.e = -1 THEN 1
    ELSE (x.hi \div (2 ^ (12 - x.e))) + ((x.hi \div (2 ^ (11 - x.e))) % 2)

\* The entities with status BULLISH: stocks.filter(s => s.status === 'BULLISH')
bullishOf(entities) ==
    SelectSeq(entities, LAMBDA s : Get(s, "status") = Str("BULLISH"))

\* calculateSentiment(stocks)
calculateSentiment(entities) ==
    IF Len(entities) = 0 THEN [bullish |-> 0, bearish |-> 0, percent |-> 0]
    ELSE LET bullishCount == Len(bullishOf(entities)) IN
         [bullish |-> bullishCount,
          bearish |-> Len(entities) - bullishCount,
          percent |-> IF bullishCount = 0 THEN 0
                      ELSE MathRound(Times100(Divide(bullishCount, Len(entities))))]

\* sentimentStats of App
sentimentStats == calculateSentiment(stocks)

\* The statuses of a sequence of entities
statusesOf(entities) == [i \in 1..Len(entities) |-> Get(entities[i], "status").val]

\* C25: for the current entities, total of them, calculateSentiment gives
\* bullish = the number with status BULLISH, bearish = total - bullish and
\* percent = the integer nearest to bullish / total * 100, a half going up (0
\* when total = 0):
\* bullish + bearish = total, 0 <= percent <= 100, the empty list gives
\* {0, 0, 0} and [BULLISH, BULLISH, BEARISH] gives {2, 1, 67}.
C25_Sentiment ==
    LET total == Len(stocks)
        b == Cardinality({i \in 1..total : Get(stocks[i], "status") = Str("BULLISH")})
        r == sentimentStats
    IN /\ r.bullish = b
       /\ r.bearish = total - b
       /\ r.bullish + r.bearish = total
       /\ r.percent \in 0..100
       /\ total = 0 => r = [bullish |-> 0, bearish |-> 0, percent |-> 0]
       /\ total > 0 => /\ 2 * (r.percent * total - 100 * b) <= total
                       /\ 2 * (100 * b - r.percent * total) < total
       /\ statusesOf(stocks) = << "BULLISH", "BULLISH", "BEARISH" >>
             => r = [bullish |-> 2, bearish |-> 1, percent |-> 67]

\* C26: loading is true from the start for as long as the fetch of the mount
\* is pending, it is false in the mounted session once the fetch has settled,
\* with a store or without, it never becomes true again, and, the fetch
\* settling, the session comes to a state where it is false (or is torn down).
C26_LoadingUntilSettled ==
    /\ [](fetchPending => loading)
    /\ []((mounted /\ ~fetchPending) => ~loading)
    /\ [][~loading => ~loading']_vars
    /\ <>(~loading \/ ~mounted)

\* C26's case: the fetch has failed and loading is false over the empty store.
C26_Witness ==
    /\ lastOp = "fetch"
    /\ mounted
    /\ ~fetchPending
    /\ ~loading
    /\ history = << >>
    /\ feed.status = "httpError"

\* C27: a record of stockData that has no ticker is dropped by the
\* normalization: the store is built, and the entities of its live snapshot
\* are the normalized records of stockData that have a ticker, in their order.
C27_TickerlessDropped ==
    (storeBuilt /\ feed.status = "ok")
        => LET kept == SelectSeq(feed.stockData, LAMBDA item : "ticker" \in DOMAIN item)
           IN /\ Len(history) > 0
              /\ liveStocksOfStore = liveStocksOf(kept, [i \in 1..Len(kept) |-> "lo"])
              /\ \A i \in 1..Len(liveStocksOfStore) :
                    Get(liveStocksOfStore[i], "ticker") # Undefined

\* C28: every entity of every snapshot of the store has a market_cap, and it
\* is not the empty value, whatever the feed supplied for it.
C28_MarketCapPresent ==
    storeBuilt
        => \A k \in 1..Len(history) :
           \A j \in 1..Len(history[k].data) :
              LET cap == Get(history[k].data[j], "market_cap")
              IN cap # Undefined /\ cap.val # ""

\* C29: in every reachable state at most one playback interval is active; an
\* interval is active only while isPlaying is true and the session is not
\* torn down, and it is the one playbackRef holds; and a step that creates an
\* interval leaves none of the earlier ones active.
C29_OneInterval ==
    /\ [](/\ Cardinality(intervals) <= 1
          /\ intervals # {} => isPlaying /\ mounted
          /\ \A iv \in intervals : iv.id = playbackRef)
    /\ [][intervals' \ intervals # {} => intervals \cap intervals' = {}]_vars

\* C29's case: the store was built while playing, and the interval of the
\* empty store was replaced by one of the built store.
C29_Witness ==
    /\ lastOp = "fetch"
    /\ isPlaying
    /\ Len(history) > 0
    /\ intervals = {[id |-> 2, length |-> Len(history)]}

\* handleTimeIndexChange(filteredIdx) of the footer as rendered: the position
\* and the isPlaying it leaves
handleTimeIndexChange(filteredIdx) ==
    IF Len(filteredHistory) = 0
        THEN [timeIndex |-> timeIndex, isPlaying |-> isPlaying]
    ELSE IF originalIdxOf(history, filteredHistory, filteredIdx) >= 0
        THEN [timeIndex |-> originalIdxOf(history, filteredHistory, filteredIdx),
              isPlaying |-> FALSE]
    ELSE [timeIndex |-> timeIndex, isPlaying |-> isPlaying]

\* C30: when the footer is shown over a store of increasing timestamps,
\* choosing any k of 0..maxIndex on the slider leaves the position at the
\* store index of the snapshot displayed at k and playback stopped, whether
\* the displayed sequence is the 24-hour window or, the window being empty,
\* the whole store.
C30_SliderSetsPosition ==
    (/\ footerShown
     /\ \A i, j \in 1..Len(history) :
           i < j => LessThan(history[i].timestamp, history[j].timestamp))
        => \A k \in 0..maxIndexOf(history, filteredHistory) :
              /\ ~handleTimeIndexChange(k).isPlaying
              /\ handleTimeIndexChange(k).timeIndex \in 0..(Len(history) - 1)
              /\ history[handleTimeIndexChange(k).timeIndex + 1]
                    = displayHistoryOf(history, filteredHistory)[k + 1]

====
